---- MODULE Spec2Model ----
(***************************************************************************)
(* Model of the correlation service of Clustering_company_new:             *)
(*   correlation_module.py  get_fields_for_group,                          *)
(*                          calculate_correlation_matrix                   *)
(*   app.py                 get_correlation_api (from the parsed CSV on)   *)
(*                                                                         *)
(* Numbers are integers.  A cell of a table is NaN (the empty tuple) or    *)
(* <<v>>.  Quartiles are kept multiplied by 4 and fences multiplied by 8,  *)
(* which is exact for linear interpolation at q = 1/4 and q = 3/4.  A      *)
(* correlation coefficient r is kept exactly as <<sign(r), p, q>> with     *)
(* r^2 = p/q in lowest terms; floating-point rounding is not modelled.     *)
(***************************************************************************)
EXTENDS Integers, Sequences, FiniteSets

VARIABLES input_df, pc, industries, si, gi, group_matrices, results, last, response

vars == <<input_df, pc, industries, si, gi, group_matrices, results, last, response>>

(***************************************************************************)
(* Bounds of the enumerated inputs.                                        *)
(***************************************************************************)
MaxRows == 4
MaxVal == 1
MaxSRows == 2

(***************************************************************************)
(* Values.                                                                 *)
(***************************************************************************)
NaN == << >>
None == << >>
Some(v) == <<v>>
One == <<1, 1, 1>>

SectorCol == "sector_unique_id"

Range(s) == {s[i] : i \in 1..Len(s)}

RECURSIVE SumSeq(_)
SumSeq(s) == IF s = << >> THEN 0 ELSE Head(s) + SumSeq(Tail(s))

RECURSIVE GCD(_, _)
GCD(a, b) == IF b = 0 THEN a ELSE GCD(b, a % b)

RECURSIVE Insert(_, _)
Insert(v, s) ==
    IF s = << >> THEN <<v>>
    ELSE IF v <= Head(s) THEN <<v>> \o s
    ELSE <<Head(s)>> \o Insert(v, Tail(s))

RECURSIVE SortValues(_)
SortValues(s) == IF s = << >> THEN << >> ELSE Insert(Head(s), SortValues(Tail(s)))

RECURSIVE SortedKeys(_)
SortedKeys(S) ==
    IF S = {} THEN << >>
    ELSE LET m == CHOOSE k \in S : \A o \in S : k <= o
         IN  <<m>> \o SortedKeys(S \ {m})

RECURSIVE Unique(_)
Unique(s) ==
    IF s = << >> THEN << >>
    ELSE LET u == Unique(SubSeq(s, 1, Len(s) - 1))
             v == s[Len(s)]
         IN  IF v \in Range(u) THEN u ELSE Append(u, v)

(***************************************************************************)
(* The attribute description table (field_description.xlsx), loaded once:  *)
(* rows of (group label, field).  G1 lists field A twice.                  *)
(***************************************************************************)
attribute_description_df ==
    << [group |-> "G1", field |-> "A"],
       [group |-> "G1", field |-> "B"],
       [group |-> "G2", field |-> "B"],
       [group |-> "G2", field |-> "C"],
       [group |-> "G1", field |-> "A"],
       [group |-> "G3", field |-> "A"],
       [group |-> "G3", field |-> "B"],
       [group |-> "G3", field |-> "C"] >>

ColumnSeq(table, col) == [i \in 1..Len(table) |-> table[i][col]]

indicator_groups == Unique(ColumnSeq(attribute_description_df, "group"))

get_fields_for_group(table, group_name) ==
    Unique(ColumnSeq(SelectSeq(table, LAMBDA r : r.group = group_name), "field"))

(***************************************************************************)
(* calculate_correlation_matrix(df, fields).  A dataframe is               *)
(* [cols |-> set of column names, rows |-> sequence of rows], a row being  *)
(* a function from cols to cells.  fields is the list of selected columns. *)
(***************************************************************************)

\* faulty variant: df.dropna()[fields], a missing value in any column of the
\* slice drops the row
DropNaAnyColumn(df, fields) ==
    LET kept == SelectSeq(df.rows, LAMBDA r : \A c \in df.cols : r[c] # NaN)
    IN  [i \in 1..Len(kept) |-> [f \in Range(fields) |-> kept[i][f]]]

\* df[fields].dropna(): the selected columns of the rows that have a value
\* in every selected column
DropNa(df, fields) ==
    LET sel == [i \in 1..Len(df.rows) |-> [f \in Range(fields) |-> df.rows[i][f]]]
    IN  SelectSeq(sel, LAMBDA r : \A f \in Range(fields) : r[f] # NaN)

\* the values of column f of a frame without missing cells
Values(x, f) == [i \in 1..Len(x) |-> x[i][f][1]]

\* faulty variant: the position is (k/4) * n instead of (k/4) * (n - 1)
QuantileOverN(col, k) ==
    LET s  == SortValues(col)
        n  == Len(col)
        p  == k * n
        lo == IF (p \div 4) + 1 > n THEN n ELSE (p \div 4) + 1
        fr == p % 4
        hi == IF fr = 0 \/ lo = n THEN lo ELSE lo + 1
    IN  4 * s[lo] + fr * (s[hi] - s[lo])

\* 4 * (the k/4 quantile of col), linear interpolation between the order
\* statistics around position (k/4) * (n - 1)
Quantile(col, k) ==
    LET s  == SortValues(col)
        p  == k * (Len(col) - 1)
        lo == (p \div 4) + 1
        fr == p % 4
        hi == IF fr = 0 THEN lo ELSE lo + 1
    IN  4 * s[lo] + fr * (s[hi] - s[lo])

\* x.quantile(k/4): one quartile per column
QuantileFrame(x, fields, k) == [f \in Range(fields) |-> Quantile(Values(x, f), k)]

\* v < Q1 - 1.5 * IQR  or  v > Q3 + 1.5 * IQR, all multiplied by 8
IsOutlier(v, q1, q3) ==
    LET iqr == q3 - q1
    IN  \/ 8 * v < 2 * q1 - 3 * iqr
        \/ 8 * v > 2 * q3 + 3 * iqr

\* faulty variant: the quartiles are taken again from the frame being
\* filtered instead of the ones computed once
RemoveOutliersRecomputed(x, fields, Q1, Q3) ==
    SelectSeq(x, LAMBDA r : ~ \E f \in Range(fields) :
                     IsOutlier(r[f][1], Quantile(Values(x, f), 1), Quantile(Values(x, f), 3)))

\* faulty variant: .all(axis=1), a row goes only when it is an outlier on
\* every field
RemoveOutliersAll(x, fields, Q1, Q3) ==
    SelectSeq(x, LAMBDA r : ~ \A f \in Range(fields) : IsOutlier(r[f][1], Q1[f], Q3[f]))

\* x[~(outlier mask).any(axis=1)]
RemoveOutliers(x, fields, Q1, Q3) ==
    SelectSeq(x, LAMBDA r : ~ \E f \in Range(fields) : IsOutlier(r[f][1], Q1[f], Q3[f]))

Sign(v) == IF v > 0 THEN 1 ELSE IF v < 0 THEN -1 ELSE 0

Abs(v) == IF v < 0 THEN -v ELSE v

\* |p| / q in lowest terms, q > 0
Ratio(p, q) == LET d == GCD(Abs(p), q) IN <<Abs(p) \div d, q \div d>>

\* faulty variant: the covariance sum lacks the factor n
PearsonEntryNoCount(xc, f, g) ==
    LET n   == Len(xc)
        a   == Values(xc, f)
        b   == Values(xc, g)
        sa  == SumSeq(a)
        sb  == SumSeq(b)
        ssa == n * SumSeq([i \in 1..n |-> a[i] * a[i]]) - sa * sa
        ssb == n * SumSeq([i \in 1..n |-> b[i] * b[i]]) - sb * sb
        cab == SumSeq([i \in 1..n |-> a[i] * b[i]]) - sa * sb
    IN  IF ssa = 0 \/ ssb = 0 THEN NaN
        ELSE LET u == Ratio(cab, ssa)
                 v == Ratio(cab, ssb)
                 w == Ratio(u[1] * v[1], u[2] * v[2])
             IN  <<Sign(cab), w[1], w[2]>>

\* faulty variant: the covariance is divided by the variance of the row
\* field only
PearsonEntrySlope(xc, f, g) ==
    LET n   == Len(xc)
        a   == Values(xc, f)
        b   == Values(xc, g)
        sa  == SumSeq(a)
        sb  == SumSeq(b)
        ssa == n * SumSeq([i \in 1..n |-> a[i] * a[i]]) - sa * sa
        ssb == n * SumSeq([i \in 1..n |-> b[i] * b[i]]) - sb * sb
        cab == n * SumSeq([i \in 1..n |-> a[i] * b[i]]) - sa * sb
    IN  IF ssa = 0 \/ ssb = 0 THEN NaN
        ELSE LET u == Ratio(cab, ssa)
                 w == Ratio(u[1] * u[1], u[2] * u[2])
             IN  <<Sign(cab), w[1], w[2]>>

\* Pearson correlation of columns f and g over the rows of xc: NaN when a
\* column has no variance, else cov / sqrt(var_f * var_g)
PearsonEntry(xc, f, g) ==
    LET n   == Len(xc)
        a   == Values(xc, f)
        b   == Values(xc, g)
        sa  == SumSeq(a)
        sb  == SumSeq(b)
        ssa == n * SumSeq([i \in 1..n |-> a[i] * a[i]]) - sa * sa
        ssb == n * SumSeq([i \in 1..n |-> b[i] * b[i]]) - sb * sb
        cab == n * SumSeq([i \in 1..n |-> a[i] * b[i]]) - sa * sb
    IN  IF ssa = 0 \/ ssb = 0 THEN NaN
        ELSE LET u == Ratio(cab, ssa)
                 v == Ratio(cab, ssb)
                 w == Ratio(u[1] * v[1], u[2] * v[2])
             IN  <<Sign(cab), w[1], w[2]>>

\* x_cleaned.corr().replace(np.nan, None).values.tolist()
Corr(xc, fields) ==
    [i \in 1..Len(fields) |-> [j \in 1..Len(fields) |-> PearsonEntry(xc, fields[i], fields[j])]]

\* faulty variant: the check for an empty cleaned set is missing
calculate_correlation_matrix_unchecked(df, fields) ==
    LET x == DropNa(df, fields)
    IN  IF Len(x) < 2 \/ Len(fields) < 2
        THEN [df |-> df, fields |-> fields, x |-> x, Q1 |-> << >>, Q3 |-> << >>,
              x_cleaned |-> << >>, ret |-> None]
        ELSE LET Q1 == QuantileFrame(x, fields, 1)
                 Q3 == QuantileFrame(x, fields, 3)
                 x_cleaned == RemoveOutliers(x, fields, Q1, Q3)
             IN  [df |-> df, fields |-> fields, x |-> x, Q1 |-> Q1, Q3 |-> Q3,
                  x_cleaned |-> x_cleaned,
                  ret |-> Some([matrix |-> Corr(x_cleaned, fields), headers |-> fields])]

\* The locals of one call and its return value (ret): None, or
\* Some([matrix, headers]).
calculate_correlation_matrix(df, fields) ==
    LET x == DropNa(df, fields)
    IN  IF Len(x) < 2 \/ Len(fields) < 2
        THEN [df |-> df, fields |-> fields, x |-> x, Q1 |-> << >>, Q3 |-> << >>,
              x_cleaned |-> << >>, ret |-> None]
        ELSE LET Q1 == QuantileFrame(x, fields, 1)
                 Q3 == QuantileFrame(x, fields, 3)
                 x_cleaned == RemoveOutliers(x, fields, Q1, Q3)
             IN  [df |-> df, fields |-> fields, x |-> x, Q1 |-> Q1, Q3 |-> Q3,
                  x_cleaned |-> x_cleaned,
                  ret |-> IF x_cleaned = << >> \/ Len(fields) < 2
                          THEN None
                          ELSE Some([matrix |-> Corr(x_cleaned, fields),
                                     headers |-> fields])]

(***************************************************************************)
(* The parsed input datasets the request is run on.                        *)
(***************************************************************************)
SeqsUpTo(S, n) == UNION {[1..k -> S] : k \in 0..n}

\* one sector, fields A (0..MaxVal) and B (0 or 1) without missing values,
\* up to MaxRows rows
NumericRows ==
    {[c \in {SectorCol, "A", "B"} |->
        IF c = SectorCol THEN Some(1) ELSE IF c = "A" THEN Some(a) ELSE Some(b)] :
     a \in 0..MaxVal, b \in 0..1}

NumericDatasets ==
    {[cols |-> {SectorCol, "A", "B"}, rows |-> r] : r \in SeqsUpTo(NumericRows, MaxRows)}

\* any subset of the columns, two sectors, missing cells, up to MaxSRows rows
SparseCells(c) == IF c = SectorCol THEN {Some(1), Some(2)} ELSE {NaN, Some(1)}

SparseRows(cols) == {r \in [cols -> {NaN, Some(1), Some(2)}] : \A c \in cols : r[c] \in SparseCells(c)}

SparseDatasets ==
    UNION {{[cols |-> cols, rows |-> r] : r \in SeqsUpTo(SparseRows(cols), MaxSRows)} :
           cols \in SUBSET {SectorCol, "A", "B", "C"}}

\* five-row tables put together from columns with outliers, constant
\* columns and missing cells
Absent == <<"absent">>

SectorPool ==
    { Absent,
      <<Some(1), Some(1), Some(1), Some(1), Some(1)>>,
      <<Some(1), Some(1), Some(1), Some(1), Some(2)>>,
      <<Some(2), Some(1), Some(2), Some(1), Some(1)>>,
      <<Some(2), Some(2), NaN, Some(1), Some(1)>> }

FieldPool ==
    { Absent,
      <<Some(0), Some(0), Some(0), Some(1), Some(3)>>,
      <<Some(-1), Some(1), Some(0), Some(0), Some(0)>>,
      <<Some(0), Some(0), Some(-1), Some(1), Some(0)>>,
      <<Some(0), Some(0), Some(0), Some(0), Some(1)>>,
      <<Some(2), Some(2), Some(2), Some(2), Some(2)>>,
      <<NaN, Some(1), Some(2), Some(3), Some(5)>> }

Columnar(s, a, b, c) ==
    LET col  == [n \in {SectorCol, "A", "B", "C"} |->
                    IF n = SectorCol THEN s ELSE IF n = "A" THEN a
                    ELSE IF n = "B" THEN b ELSE c]
        cols == {n \in {SectorCol, "A", "B", "C"} : col[n] # Absent}
    IN  [cols |-> cols, rows |-> [i \in 1..5 |-> [n \in cols |-> col[n][i]]]]

PoolDatasets ==
    {Columnar(s, a, b, c) : s \in SectorPool, a \in FieldPool, b \in FieldPool, c \in FieldPool}

\* one sector, A = [1,2,3,4,100], B = [2,4,6,8,200]
TukeyScenario ==
    Columnar(<<Some(1), Some(1), Some(1), Some(1), Some(1)>>,
             <<Some(1), Some(2), Some(3), Some(4), Some(100)>>,
             <<Some(2), Some(4), Some(6), Some(8), Some(200)>>,
             Absent)

Datasets == NumericDatasets \cup SparseDatasets \cup PoolDatasets \cup {TukeyScenario}

(***************************************************************************)
(* get_correlation_api, from the parsed input_df on (app.py:36-66).        *)
(***************************************************************************)

\* input_df.groupby('sector_unique_id'): one (name, slice) per distinct key
\* in ascending order; rows without a key belong to no group
GroupBy(df) ==
    LET keys == {df.rows[i][SectorCol][1] :
                    i \in {j \in 1..Len(df.rows) : df.rows[j][SectorCol] # NaN}}
        srt  == SortedKeys(keys)
    IN  [k \in 1..Len(srt) |->
            [name |-> srt[k],
             df   |-> [cols |-> df.cols,
                       rows |-> SelectSeq(df.rows, LAMBDA r : r[SectorCol] = Some(srt[k]))]]]

\* [f for f in fields if f in industry_df.columns]
ExistingFields(group_name, industry_df) ==
    SelectSeq(get_fields_for_group(attribute_description_df, group_name),
              LAMBDA f : f \in industry_df.cols)

Init ==
    /\ input_df \in Datasets
    /\ pc = "start"
    /\ industries = << >>
    /\ si = 0
    /\ gi = 0
    /\ group_matrices = << >>
    /\ results = << >>
    /\ last = None
    /\ response = None

\* faulty variant: the column check is missing and the whole table is
\* taken as one sector
ProceedWithoutColumn ==
    /\ pc = "start"
    /\ SectorCol \notin input_df.cols
    /\ industries' = <<[name |-> 0, df |-> input_df]>>
    /\ results' = << >>
    /\ si' = 1
    /\ pc' = "sector"
    /\ UNCHANGED <<input_df, gi, group_matrices, last, response>>

\* app.py:36-37
RejectMissingColumn ==
    /\ pc = "start"
    /\ SectorCol \notin input_df.cols
    /\ response' = Some([status |-> 400,
                         body |-> "CSV must contain a 'sector_unique_id' column."])
    /\ pc' = "done"
    /\ UNCHANGED <<input_df, industries, si, gi, group_matrices, results, last>>

\* app.py:39-41
StartSectors ==
    /\ pc = "start"
    /\ SectorCol \in input_df.cols
    /\ industries' = GroupBy(input_df)
    /\ results' = << >>
    /\ si' = 1
    /\ pc' = "sector"
    /\ UNCHANGED <<input_df, gi, group_matrices, last, response>>

\* app.py:43-44
BeginSector ==
    /\ pc = "sector"
    /\ si <= Len(industries)
    /\ group_matrices' = << >>
    /\ gi' = 1
    /\ pc' = "group"
    /\ UNCHANGED <<input_df, industries, si, results, last, response>>

\* faulty variant: break instead of continue
SkipGroupBreak ==
    /\ pc = "group"
    /\ gi <= Len(indicator_groups)
    /\ Len(ExistingFields(indicator_groups[gi], industries[si].df)) < 2
    /\ gi' = Len(indicator_groups) + 1
    /\ UNCHANGED <<input_df, pc, industries, si, group_matrices, results, last, response>>

\* app.py:46-53
SkipGroup ==
    /\ pc = "group"
    /\ gi <= Len(indicator_groups)
    /\ Len(ExistingFields(indicator_groups[gi], industries[si].df)) < 2
    /\ gi' = gi + 1
    /\ UNCHANGED <<input_df, pc, industries, si, group_matrices, results, last, response>>

\* app.py:46-58
CorrelateGroup ==
    /\ pc = "group"
    /\ gi <= Len(indicator_groups)
    /\ LET group_name == indicator_groups[gi]
           existing_fields == ExistingFields(group_name, industries[si].df)
           call == calculate_correlation_matrix(industries[si].df, existing_fields)
       IN  /\ Len(existing_fields) >= 2
           /\ last' = Some(call)
           /\ group_matrices' =
                 IF call.ret # None
                 THEN [g \in DOMAIN group_matrices \cup {group_name} |->
                          IF g = group_name THEN call.ret[1] ELSE group_matrices[g]]
                 ELSE group_matrices
    /\ gi' = gi + 1
    /\ UNCHANGED <<input_df, pc, industries, si, results, response>>

\* faulty variant: the entry is appended also when no group gave a matrix
EndSectorAlways ==
    /\ pc = "group"
    /\ gi > Len(indicator_groups)
    /\ results' = Append(results, [sector_name |-> industries[si].name,
                                   group_correlation_matrices |-> group_matrices])
    /\ si' = si + 1
    /\ pc' = "sector"
    /\ UNCHANGED <<input_df, industries, gi, group_matrices, last, response>>

\* app.py:60-64
EndSector ==
    /\ pc = "group"
    /\ gi > Len(indicator_groups)
    /\ results' =
          IF DOMAIN group_matrices # {}
          THEN Append(results, [sector_name |-> industries[si].name,
                                group_correlation_matrices |-> group_matrices])
          ELSE results
    /\ si' = si + 1
    /\ pc' = "sector"
    /\ UNCHANGED <<input_df, industries, gi, group_matrices, last, response>>

\* app.py:66
Respond ==
    /\ pc = "sector"
    /\ si > Len(industries)
    /\ response' = Some([status |-> 200, body |-> results])
    /\ pc' = "done"
    /\ UNCHANGED <<input_df, industries, si, gi, group_matrices, results, last>>

Next ==
    \/ RejectMissingColumn
    \/ StartSectors
    \/ BeginSector
    \/ SkipGroup
    \/ CorrelateGroup
    \/ EndSector
    \/ Respond

Spec == Init /\ [][Next]_vars

(***************************************************************************)
(* Vocabulary of the properties.                                           *)
(***************************************************************************)
HasSectorColumn == SectorCol \in input_df.cols

Answered(status) == pc = "done" /\ response # None /\ response[1].status = status

\* the distinct sector identifiers of the input rows
SectorKeys ==
    IF HasSectorColumn
    THEN {input_df.rows[i][SectorCol][1] :
             i \in {j \in 1..Len(input_df.rows) : input_df.rows[j][SectorCol] # NaN}}
    ELSE {}

SectorSlice(k) ==
    [cols |-> input_df.cols,
     rows |-> SelectSeq(input_df.rows, LAMBDA r : r[SectorCol] = Some(k))]

\* the rows of df that have a value in every one of fields
CompleteRows(df, fields) ==
    {i \in 1..Len(df.rows) : \A f \in Range(fields) : df.rows[i][f] # NaN}

Produces(k, g) ==
    LET ef == ExistingFields(g, SectorSlice(k))
    IN  Len(ef) >= 2 /\ calculate_correlation_matrix(SectorSlice(k), ef).ret # None

Groups == Range(indicator_groups)

Entries == {response[1].body[i] : i \in 1..Len(response[1].body)}

EntryNames == {e.sector_name : e \in Entries}

Frame == last[1]

Returned == last # None /\ Frame.ret # None

----------------------------------------------------------------------------
\* C1, as stated: the response has exactly one entry per distinct sector
\* identifier of the input, also for sectors where no group produced a result.
C1_EveryInputSectorHasAnEntry ==
    Answered(200) =>
        /\ EntryNames = SectorKeys
        /\ Len(response[1].body) = Cardinality(SectorKeys)

\* C1, amended: the response has exactly one entry per distinct sector
\* identifier for which at least one indicator group produced a result, in
\* ascending order of the identifier; the other sectors have no entry.
C1_EntriesAreTheSectorsWithAResult ==
    Answered(200) =>
        LET body == response[1].body
        IN  /\ EntryNames = {k \in SectorKeys : \E g \in Groups : Produces(k, g)}
            /\ \A i \in 1..Len(body) - 1 : body[i].sector_name < body[i + 1].sector_name

C1_Witness ==
    /\ Answered(200)
    /\ \E k \in SectorKeys : k \notin EntryNames
    /\ \E k \in SectorKeys : k \in EntryNames

----------------------------------------------------------------------------
\* C2: without a sector_unique_id column the request ends with the
\* validation error; the sector loop never starts, the result list is never
\* built and calculate_correlation_matrix is never invoked.
C2_MissingColumnIsRejectedBeforeTheLoop ==
    ~ HasSectorColumn =>
        /\ pc \in {"start", "done"}
        /\ industries = << >> /\ si = 0 /\ gi = 0
        /\ results = << >> /\ group_matrices = << >>
        /\ last = None
        /\ pc = "done" => Answered(400)

C2_Witness ==
    /\ ~ HasSectorColumn
    /\ Answered(400)
    /\ {"A", "B"} \subseteq input_df.cols
    /\ Cardinality(CompleteRows(input_df, <<"A", "B">>)) >= 2

----------------------------------------------------------------------------
\* C3: a group with fewer than 2 of its fields among the columns is absent
\* from every sector's group_correlation_matrices and the request still
\* succeeds; every other (sector, group) that yields a matrix is in the
\* response.
C3_GroupWithTooFewFieldsIsSkipped ==
    (HasSectorColumn /\ pc = "done") =>
        /\ Answered(200)
        /\ \A k \in SectorKeys : \A g \in Groups :
              /\ Len(ExistingFields(g, SectorSlice(k))) < 2 =>
                    \A e \in Entries :
                        e.sector_name = k => g \notin DOMAIN e.group_correlation_matrices
              /\ Produces(k, g) =>
                    \E e \in Entries :
                        e.sector_name = k /\ g \in DOMAIN e.group_correlation_matrices

C3_Witness ==
    /\ Answered(200)
    /\ \E k \in SectorKeys :
          /\ Len(ExistingFields("G1", SectorSlice(k))) < 2
          /\ \E e \in Entries :
                e.sector_name = k /\ "G2" \in DOMAIN e.group_correlation_matrices
    /\ \E k \in SectorKeys : k \notin EntryNames

----------------------------------------------------------------------------
\* C4: a call computes on exactly the rows of the slice that have a value in
\* every selected field (missing values in other columns do not exclude a
\* row); with fewer than 2 such rows it returns None and the group is not in
\* the sector's output.
C4_FewerThanTwoCompleteRowsGivesNone ==
    /\ last # None =>
          LET complete == CompleteRows(Frame.df, Frame.fields)
              idx == SortedKeys(complete)
          IN  /\ Frame.x = [j \in 1..Len(idx) |->
                               [f \in Range(Frame.fields) |-> Frame.df.rows[idx[j]][f]]]
              /\ Cardinality(complete) < 2 => Frame.ret = None
    /\ Answered(200) =>
          \A e \in Entries : \A g \in Groups :
              LET df == SectorSlice(e.sector_name)
              IN  Cardinality(CompleteRows(df, ExistingFields(g, df))) < 2 =>
                      g \notin DOMAIN e.group_correlation_matrices

C4_Witness ==
    /\ pc = "group"
    /\ last # None
    /\ Frame.fields = <<"B", "C">>
    /\ Len(Frame.df.rows) >= 2
    /\ Cardinality(CompleteRows(Frame.df, Frame.fields)) < 2
    /\ Frame.ret = None
    /\ DOMAIN group_matrices = {"G1"}

----------------------------------------------------------------------------
\* C5: on A = [1,2,3,4,100], B = [2,4,6,8,200] the call drops exactly the
\* row (100, 200) and returns the 2x2 matrix whose four entries are 1.0.
C5_TukeyScenario ==
    (input_df = TukeyScenario /\ last # None) =>
        /\ Frame.fields = <<"A", "B">>
        /\ Len(Frame.x) = 5
        /\ Frame.x_cleaned = SubSeq(Frame.x, 1, 4)
        /\ Frame.ret = Some([matrix |-> <<<<One, One>>, <<One, One>>>>,
                             headers |-> <<"A", "B">>])

C5_Witness ==
    /\ input_df = TukeyScenario
    /\ Answered(200)
    /\ last # None
    /\ Len(response[1].body) = 1
    /\ "G1" \in DOMAIN response[1].body[1].group_correlation_matrices
    /\ response[1].body[1].group_correlation_matrices["G1"].matrix[1][2] = One

----------------------------------------------------------------------------
----------------------------------------------------------------------------
\* the field has a single value over the cleaned rows of the call
ZeroVariance(f) == Cardinality({Frame.x_cleaned[r][f] : r \in 1..Len(Frame.x_cleaned)}) = 1

Matrix == Frame.ret[1].matrix

Headers == Frame.ret[1].headers

\* C7: every diagonal entry of a returned matrix is 1.0, or the 'no value'
\* marker exactly when its field has zero variance over the cleaned rows.
C7_DiagonalIsOneOrNoValue ==
    Returned =>
        \A i \in 1..Len(Headers) :
            Matrix[i][i] = IF ZeroVariance(Headers[i]) THEN None ELSE One

C7_Witness ==
    /\ Returned
    /\ Len(Frame.x_cleaned) < Len(Frame.x)
    /\ \E i \in 1..Len(Headers) : Matrix[i][i] = None
    /\ \E i \in 1..Len(Headers) : Matrix[i][i] = One

----------------------------------------------------------------------------
\* C8: a returned matrix is square with side the number of headers, and
\* symmetric (two 'no value' entries being equal).
C8_MatrixIsSquareAndSymmetric ==
    Returned =>
        /\ Len(Matrix) = Len(Headers)
        /\ \A i \in 1..Len(Matrix) : Len(Matrix[i]) = Len(Headers)
        /\ \A i \in 1..Len(Headers) : \A j \in 1..Len(Headers) : Matrix[i][j] = Matrix[j][i]

C8_Witness ==
    /\ Returned
    /\ Len(Headers) = 3
    /\ \E i \in 1..3 : \E j \in 1..3 :
          i # j /\ Matrix[i][j] \notin {None, One, <<-1, 1, 1>>, <<0, 0, 1>>}
    /\ \E i \in 1..3 : \E j \in 1..3 : Matrix[i][j] = None

----------------------------------------------------------------------------
\* the fields that are not constant over the cleaned rows of the call
UsableFields == {f \in Range(Frame.fields) : ~ ZeroVariance(f)}

PassedFirstGate == last # None /\ Len(Frame.x) >= 2 /\ Len(Frame.fields) >= 2

\* C9, as stated: after outlier removal the call returns None when the
\* cleaned set is empty or fewer than 2 fields are left once the constant
\* columns of the cleaned set are dropped.
C9_ConstantColumnsAreDropped ==
    (PassedFirstGate /\ (Frame.x_cleaned = << >> \/ Cardinality(UsableFields) < 2)) =>
        Frame.ret = None

\* C9, amended: after outlier removal the call returns None exactly when
\* the cleaned set is empty.  No column is dropped: the headers are all the
\* selected fields, and a field that is constant over the cleaned rows has
\* 'no value' in its whole row and column of the matrix.
C9_NoneOnlyWhenCleanedSetIsEmpty ==
    PassedFirstGate =>
        /\ Frame.ret = None <=> Frame.x_cleaned = << >>
        /\ Frame.ret # None =>
              /\ Headers = Frame.fields
              /\ \A i \in 1..Len(Headers) : \A j \in 1..Len(Headers) :
                    (ZeroVariance(Headers[i]) \/ ZeroVariance(Headers[j])) <=>
                        Matrix[i][j] = None

C9_Witness ==
    /\ PassedFirstGate
    /\ Len(Frame.fields) = 2
    /\ Len(Frame.x_cleaned) >= 2
    /\ Cardinality(UsableFields) = 1
    /\ Frame.ret # None

\* a call of three fields in which every complete-case row is an outlier on
\* some field
C9_EmptyCleanedSet ==
    /\ PassedFirstGate
    /\ Frame.x_cleaned = << >>
    /\ Frame.ret = None

----------------------------------------------------------------------------
\* 8 * v lies in [Q1 - 1.5 * IQR, Q3 + 1.5 * IQR], the quartiles q1 and q3
\* given multiplied by 4
WithinFence(v, q1, q3) == 5 * q1 - 3 * q3 <= 8 * v /\ 8 * v <= 5 * q3 - 3 * q1

\* the rows of the complete-case frame x of the call that are, for every
\* selected field, within the fence of the quartiles taken over all of x
KeptRows ==
    {i \in 1..Len(Frame.x) :
        \A f \in Range(Frame.fields) :
            WithinFence(Frame.x[i][f][1], Quantile(Values(Frame.x, f), 1),
                        Quantile(Values(Frame.x, f), 3))}

\* C10: a complete-case row is in the cleaned set iff each of its selected
\* values lies within its field's fence, the quartiles being those of all
\* the complete-case rows.
C10_KeptIffWithinEveryFence ==
    PassedFirstGate =>
        LET idx == SortedKeys(KeptRows)
        IN  Frame.x_cleaned = [j \in 1..Len(idx) |-> Frame.x[idx[j]]]

C10_Witness ==
    /\ PassedFirstGate
    /\ Len(Frame.fields) = 2
    /\ Len(Frame.x_cleaned) = Len(Frame.x) - 2
    /\ \E i \in 1..Len(Frame.x) : \E f \in Range(Frame.fields) : \E g \in Range(Frame.fields) :
          /\ i \notin KeptRows
          /\ ~ WithinFence(Frame.x[i][f][1], Quantile(Values(Frame.x, f), 1),
                           Quantile(Values(Frame.x, f), 3))
          /\ WithinFence(Frame.x[i][g][1], Quantile(Values(Frame.x, g), 1),
                         Quantile(Values(Frame.x, g), 3))

====
